---------------------------- MODULE Spec2Model ----------------------------
(***************************************************************************)
(* Model of src/SnipsPlayer.ts: the SnipsPlayer adapter between an intent  *)
(* handler and an MPD client (mpc-js).                                      *)
(*                                                                         *)
(* Two specifications share the variables:                                 *)
(*   Spec      the object itself: constructor, the three connection        *)
(*             listeners, the volume methods and the one-command playback  *)
(*             methods, observed through the commands each one issues;     *)
(*   SpecCalls the promise chains getPlayingInfo, createPlayListIfPossible *)
(*             and loadPlaylistIfPossible running concurrently against an  *)
(*             MPD server that executes commands in the order sent.        *)
(*                                                                         *)
(* Optional values (a field of the options object, an argument that may be *)
(* undefined) are sequences: <<>> is "absent", <<v>> is "present with v".  *)
(* Strings that the code transforms character by character (playlist       *)
(* names) are sequences of one-character strings.                          *)
(***************************************************************************)
EXTENDS Integers, Sequences, FiniteSets, TLC

VARIABLES
    options,        \* the options object handed to the constructor
    constructed,    \* whether the constructor body has run
    host,           \* this.host
    port,           \* this.port
    volume,         \* this.volume
    volumeSilence,  \* this.volumeSilence
    enableRandom,   \* this.enableRandom
    isReady,        \* this.isReady
    lastOp,         \* the constructor, listener or method that ran last
    lastArg,        \* its argument, <<>> when it takes none
    lastIssued,     \* the MPD client calls it made, in order
    thrown,         \* the message of the Error it threw, NoError if none
    calls,          \* the promise chains started, by call id
    wire,           \* commands sent to the server and not yet executed
    playlist        \* the server's current playlist

adapterVars == <<options, constructed, host, port, volume, volumeSilence,
                 enableRandom, isReady>>
opVars == <<lastOp, lastArg, lastIssued, thrown>>
callVars == <<calls, wire, playlist>>
vars == <<options, constructed, host, port, volume, volumeSilence,
          enableRandom, isReady, lastOp, lastArg, lastIssued, thrown,
          calls, wire, playlist>>

---------------------------------------------------------------------------
(* Field initialisers of the class.                                        *)

DefaultHost == "localhost"
DefaultPort == 6600
DefaultVolume == 80
DefaultVolumeSilence == 20
DefaultEnableRandom == TRUE

NoError == "none"

(* A call on the MPD client: its name and its arguments.                   *)
Cmd(op, arg) == [op |-> op, arg |-> arg]

---------------------------------------------------------------------------
(* Inputs.                                                                 *)

None == <<>>
Some(v) == <<v>>
Present(o) == Len(o) > 0

HostOptions == {None, Some(""), Some("mpd.local")}
PortOptions == {None, Some(0), Some(6601)}
VolumeOptions == {None, Some(0), Some(55)}
RandomOptions == {None, Some(FALSE), Some(TRUE)}

OptionObjects ==
    [host : HostOptions, port : PortOptions,
     defaultVolume : VolumeOptions, enableRandom : RandomOptions]

(* Levels a caller passes to saveVolume.                                   *)
VolumeLevels == {0, 55, 100}

---------------------------------------------------------------------------
(* JavaScript truthiness of an optional string, number and boolean: what   *)
(* `if (options.x)` tests.                                                 *)

TruthyString(o) == Present(o) /\ o[1] # ""
TruthyNumber(o) == Present(o) /\ o[1] # 0
TruthyBoolean(o) == Present(o) /\ o[1]

---------------------------------------------------------------------------
(* Wrapper methods: the one client call each makes.                        *)

__setVolume(v) == Cmd("setVolume", <<v>>)

stop == Cmd("stop", <<>>)

PlaybackMethods == {"previous", "next", "play", "pause", "stop", "clear"}

---------------------------------------------------------------------------
(* The constructor: override each field whose option is truthy, register   *)
(* the listeners, connect.                                                 *)

constructor ==
    /\ ~constructed
    /\ constructed' = TRUE
    /\ host' = IF TruthyString(options.host) THEN options.host[1] ELSE host
    /\ port' = IF TruthyNumber(options.port) THEN options.port[1] ELSE port
    /\ volume' = IF TruthyNumber(options.defaultVolume)
                 THEN options.defaultVolume[1] ELSE volume
    /\ enableRandom' = IF TruthyBoolean(options.enableRandom)
                       THEN options.enableRandom[1] ELSE enableRandom
    /\ lastOp' = "constructor"
    /\ lastArg' = <<>>
    /\ lastIssued' = <<Cmd("connectTCP", <<>>)>>
    /\ thrown' = NoError
    /\ UNCHANGED <<options, volumeSilence, isReady, callVars>>

(* Variant of __init that restores the initial level, not the stored one.  *)
InitWithDefaultVolume ==
    /\ constructed
    /\ isReady' = TRUE
    /\ lastOp' = "ready"
    /\ lastArg' = <<>>
    /\ lastIssued' = <<__setVolume(DefaultVolume), stop>>
    /\ thrown' = NoError
    /\ UNCHANGED <<options, constructed, host, port, volume, volumeSilence,
                   enableRandom, callVars>>

(* The 'ready' listener calls __init: readiness, normal volume, stop.      *)
__init ==
    /\ constructed
    /\ isReady' = TRUE
    /\ lastOp' = "ready"
    /\ lastArg' = <<>>
    /\ lastIssued' = <<__setVolume(volume), stop>>
    /\ thrown' = NoError
    /\ UNCHANGED <<options, constructed, host, port, volume, volumeSilence,
                   enableRandom, callVars>>

(* The 'socket-error' listener.                                            *)
OnSocketError ==
    /\ constructed
    /\ isReady' = FALSE
    /\ thrown' = "mpdConnectionFaild"
    /\ lastOp' = "socket-error"
    /\ lastArg' = <<>>
    /\ lastIssued' = <<>>
    /\ UNCHANGED <<options, constructed, host, port, volume, volumeSilence,
                   enableRandom, callVars>>

(* Variant of the 'socket-end' listener that throws without first marking  *)
(* the player not ready.                                                   *)
OnSocketEndKeepsReady ==
    /\ constructed
    /\ thrown' = "mpdConnectionEnd"
    /\ lastOp' = "socket-end"
    /\ lastArg' = <<>>
    /\ lastIssued' = <<>>
    /\ UNCHANGED <<adapterVars, callVars>>

(* The 'socket-end' listener.                                              *)
OnSocketEnd ==
    /\ constructed
    /\ isReady' = FALSE
    /\ thrown' = "mpdConnectionEnd"
    /\ lastOp' = "socket-end"
    /\ lastArg' = <<>>
    /\ lastIssued' = <<>>
    /\ UNCHANGED <<options, constructed, host, port, volume, volumeSilence,
                   enableRandom, callVars>>

(* previous, next, play, pause, stop, clear: one client call each.         *)
Playback ==
    /\ constructed
    /\ \E m \in PlaybackMethods :
          /\ lastOp' = m
          /\ lastIssued' = <<Cmd(m, <<>>)>>
    /\ lastArg' = <<>>
    /\ thrown' = NoError
    /\ UNCHANGED <<adapterVars, callVars>>

saveVolume ==
    /\ constructed
    /\ \E level \in VolumeLevels :
          /\ volume' = level
          /\ lastArg' = <<level>>
          /\ lastIssued' = <<__setVolume(level)>>
    /\ lastOp' = "saveVolume"
    /\ thrown' = NoError
    /\ UNCHANGED <<options, constructed, host, port, volumeSilence,
                   enableRandom, isReady, callVars>>

(* Variant of setVolumeToSilence that also stores the silence level.       *)
setVolumeToSilenceStores ==
    /\ constructed
    /\ volume' = volumeSilence
    /\ lastOp' = "setVolumeToSilence"
    /\ lastArg' = <<>>
    /\ lastIssued' = <<__setVolume(volumeSilence)>>
    /\ thrown' = NoError
    /\ UNCHANGED <<options, constructed, host, port, volumeSilence,
                   enableRandom, isReady, callVars>>

setVolumeToSilence ==
    /\ constructed
    /\ lastOp' = "setVolumeToSilence"
    /\ lastArg' = <<>>
    /\ lastIssued' = <<__setVolume(volumeSilence)>>
    /\ thrown' = NoError
    /\ UNCHANGED <<adapterVars, callVars>>

setVolumeToNormal ==
    /\ constructed
    /\ lastOp' = "setVolumeToNormal"
    /\ lastArg' = <<>>
    /\ lastIssued' = <<__setVolume(volume)>>
    /\ thrown' = NoError
    /\ UNCHANGED <<adapterVars, callVars>>

---------------------------------------------------------------------------
(* The MPD server behind the client: a song database, stored playlists,    *)
(* and the current playlist.  Tracks are records of the searched tags.     *)

Track(title, album, artist) ==
    [Title |-> title, Album |-> album, Artist |-> artist]

Database ==
    << Track("X", "A", "R"), Track("Y", "A", "R"), Track("Z", "B", "S") >>

(* A track matches a list of <<tag, value>> filters when every filter is   *)
(* blank or equals the track's tag.                                        *)
Matches(t, criteria) ==
    \A i \in 1..Len(criteria) :
        criteria[i][2] = "" \/ t[criteria[i][1]] = criteria[i][2]

SearchResult(criteria) ==
    SelectSeq(Database, LAMBDA t : Matches(t, criteria))

M3uSuffix == <<".", "m", "3", "u">>

(* The stored playlists, by file name.                                     *)
StoredFiles == { <<"m", "x">> \o M3uSuffix, <<"e">> \o M3uSuffix }

StoredPlaylist(file) ==
    IF file = <<"m", "x">> \o M3uSuffix
    THEN << Track("Z", "B", "S"), Track("Y", "A", "R") >>
    ELSE << >>

PlayerStates == {"play", "pause", "stop"}

(* What the current-song query may answer.                                 *)
CurrentSongs == { Track("X", "A", "R"), Track("Z", "B", "S") }

(* Errors with which the client may reject any command.                    *)
CommandErrors == {"ACK", "ETIMEDOUT"}

Resolved(v) == [ok |-> TRUE, val |-> v]
Rejected(e) == [ok |-> FALSE, val |-> e]

(* The results the server may give to a command, with the playlist each    *)
(* leaves: the command's own result, or a rejection that changes nothing.  *)
MpdResults(cmd) ==
    LET done ==
          IF cmd.op = "status"
            THEN { [resp |-> Resolved([state |-> s]), playlist |-> playlist]
                     : s \in PlayerStates }
          ELSE IF cmd.op = "currentSong"
            THEN { [resp |-> Resolved(song), playlist |-> playlist]
                     : song \in CurrentSongs }
          ELSE IF cmd.op = "search"
            THEN { [resp |-> Resolved(SearchResult(cmd.arg)),
                    playlist |-> playlist] }
          ELSE IF cmd.op = "searchAdd"
            THEN { [resp |-> Resolved(<<>>),
                    playlist |-> playlist \o SearchResult(cmd.arg)] }
          ELSE IF cmd.op = "clear"
            THEN { [resp |-> Resolved(<<>>), playlist |-> <<>>] }
          ELSE IF cmd.op = "listPlaylist"
            THEN IF cmd.arg \in StoredFiles
                 THEN { [resp |-> Resolved(StoredPlaylist(cmd.arg)),
                         playlist |-> playlist] }
                 ELSE { }
          ELSE IF cmd.op = "load"
            THEN IF cmd.arg \in StoredFiles
                 THEN { [resp |-> Resolved(<<>>),
                         playlist |-> playlist \o StoredPlaylist(cmd.arg)] }
                 ELSE { }
          ELSE { }
    IN  done \cup { [resp |-> Rejected(e), playlist |-> playlist]
                      : e \in CommandErrors }

---------------------------------------------------------------------------
(* Promise chains.  A call records the method and its arguments, where the *)
(* chain stands, the client calls made so far, the results received for    *)
(* them, and how the returned promise settled.                             *)

MaxCalls == 2
CallIds == 1..MaxCalls

Pending == [state |-> "pending", val |-> <<>>]
Fulfil(v) == [state |-> "resolved", val |-> v]
Fail(e) == [state |-> "rejected", val |-> e]
Settle(resp) == IF resp.ok THEN Fulfil(resp.val) ELSE Fail(resp.val)

Idle == [kind |-> "none", args |-> <<>>, pc |-> "idle", issued |-> <<>>,
         resps |-> <<>>, outcome |-> Pending]

(* Arguments callers pass.                                                 *)
CreateArguments ==
    { <<Some("X"), Some(""), Some("")>>,    \* a title, the rest blank
      <<None, None, None>>,                 \* nothing given: the whole library
      <<Some("X"), Some("B"), None>>,       \* no such song
      <<None, Some("B"), Some("S")>>,
      <<Some(""), None, Some("R")>> }
PlaylistNames == { <<"M", "x">>, <<"E">>, <<"Q">> }

ToLowerChar(ch) ==
    CASE ch = "M" -> "m"
      [] ch = "E" -> "e"
      [] ch = "Q" -> "q"
      [] OTHER -> ch

toLowerCase(s) == [i \in 1..Len(s) |-> ToLowerChar(s[i])]

(* `v ? v : ''` on an optional string.                                     *)
OrBlank(o) == IF TruthyString(o) THEN o[1] ELSE ""

__getStatus == Cmd("status", <<>>)

__getCurrentSong == Cmd("currentSong", <<>>)

clear == Cmd("clear", <<>>)

__checkExistance(song, album, artist) ==
    Cmd("search", << <<"Title", OrBlank(song)>>,
                     <<"Album", OrBlank(album)>>,
                     <<"Artist", OrBlank(artist)>> >>)

__createPlayList(song, album, artist) ==
    Cmd("searchAdd", << <<"Title", OrBlank(song)>>,
                        <<"Album", OrBlank(album)>>,
                        <<"Artist", OrBlank(artist)>> >>)

(* Variant of __checkExistancePlaylist that keeps the name's case.         *)
CheckExistancePlaylistCased(name) ==
    Cmd("listPlaylist", name \o M3uSuffix)

__checkExistancePlaylist(name) ==
    Cmd("listPlaylist", toLowerCase(name) \o M3uSuffix)

__loadSongFromSavedPlaylist(name) ==
    Cmd("load", toLowerCase(name) \o M3uSuffix)

(* A chain makes its next client call, or settles.                         *)
Issue(r, pc, cmd) == [r EXCEPT !.pc = pc, !.issued = Append(@, cmd)]
Finish(r, outcome) == [r EXCEPT !.pc = "done", !.outcome = outcome]

LastResp(r) == r.resps[Len(r.resps)]

(* Variant of getPlayingInfo's chain that treats only 'stop' as silent.    *)
GetPlayingInfoStopOnly(r) ==
    LET res == LastResp(r) IN
    IF r.pc = "status"
    THEN IF ~res.ok THEN Finish(r, Fail(res.val))
         ELSE IF res.val.state = "stop"
              THEN Finish(r, Fail("nothingPlaying"))
              ELSE Issue(r, "currentSong", __getCurrentSong)
    ELSE Finish(r, Settle(res))

(* getPlayingInfo's chain once the result of its last call is in.          *)
getPlayingInfoThen(r) ==
    LET res == LastResp(r) IN
    IF r.pc = "status"
    THEN IF ~res.ok THEN Finish(r, Fail(res.val))
         ELSE IF res.val.state = "stop" \/ res.val.state = "pause"
              THEN Finish(r, Fail("nothingPlaying"))
              ELSE Issue(r, "currentSong", __getCurrentSong)
    ELSE Finish(r, Settle(res))

(* Variants of createPlayListIfPossible's chain: one clears whatever the   *)
(* search found, one adds without clearing.                                *)
CreatePlayListUnchecked(r) ==
    LET res == LastResp(r) IN
    IF r.pc = "search"
    THEN IF ~res.ok THEN Finish(r, Fail(res.val))
         ELSE Issue(r, "clear", clear)
    ELSE IF r.pc = "clear"
    THEN IF ~res.ok THEN Finish(r, Fail(res.val))
         ELSE Issue(r, "searchAdd",
                    __createPlayList(r.args[1], r.args[2], r.args[3]))
    ELSE Finish(r, Settle(res))

CreatePlayListNoClear(r) ==
    LET res == LastResp(r) IN
    IF r.pc = "search"
    THEN IF ~res.ok THEN Finish(r, Fail(res.val))
         ELSE IF Len(res.val) = 0
              THEN Finish(r, Fail("notFound"))
              ELSE Issue(r, "searchAdd",
                         __createPlayList(r.args[1], r.args[2], r.args[3]))
    ELSE Finish(r, Settle(res))

(* createPlayListIfPossible's chain.                                       *)
createPlayListIfPossibleThen(r) ==
    LET res == LastResp(r) IN
    IF r.pc = "search"
    THEN IF ~res.ok THEN Finish(r, Fail(res.val))
         ELSE IF Len(res.val) = 0
              THEN Finish(r, Fail("notFound"))
              ELSE Issue(r, "clear", clear)
    ELSE IF r.pc = "clear"
    THEN IF ~res.ok THEN Finish(r, Fail(res.val))
         ELSE Issue(r, "searchAdd",
                    __createPlayList(r.args[1], r.args[2], r.args[3]))
    ELSE Finish(r, Settle(res))

(* Variant of loadPlaylistIfPossible's chain without the catch: a          *)
(* rejection keeps its own error.                                          *)
LoadPlaylistNoCatch(r) ==
    LET res == LastResp(r) IN
    IF r.pc = "listPlaylist"
    THEN IF ~res.ok THEN Finish(r, Fail(res.val))
         ELSE IF Len(res.val) = 0
              THEN Finish(r, Fail("notFound"))
              ELSE Issue(r, "clear", clear)
    ELSE IF r.pc = "clear"
    THEN IF ~res.ok THEN Finish(r, Fail(res.val))
         ELSE Issue(r, "load", __loadSongFromSavedPlaylist(r.args[1]))
    ELSE Finish(r, Settle(res))

(* loadPlaylistIfPossible's chain: a rejection of the listing or of clear, *)
(* and the "notFound" thrown on an empty listing, all reach the catch.     *)
loadPlaylistIfPossibleThen(r) ==
    LET res == LastResp(r) IN
    IF r.pc = "listPlaylist"
    THEN IF ~res.ok THEN Finish(r, Fail("notFound"))
         ELSE IF Len(res.val) = 0
              THEN Finish(r, Fail("notFound"))
              ELSE Issue(r, "clear", clear)
    ELSE IF r.pc = "clear"
    THEN IF ~res.ok THEN Finish(r, Fail("notFound"))
         ELSE Issue(r, "load", __loadSongFromSavedPlaylist(r.args[1]))
    ELSE Finish(r, Settle(res))

(* Start a chain: record it under the next free call id and send its      *)
(* first command.                                                          *)
Begin(c, kind, args, cmd) ==
    /\ calls[c].pc = "idle"
    /\ \A d \in CallIds : d < c => calls[d].pc # "idle"
    /\ calls' = [calls EXCEPT ![c] =
                    [kind |-> kind, args |-> args, pc |-> cmd.op,
                     issued |-> <<cmd>>, resps |-> <<>>, outcome |-> Pending]]
    /\ wire' = Append(wire, [call |-> c, cmd |-> cmd])
    /\ UNCHANGED <<adapterVars, opVars, playlist>>

(* Run a chain's continuation; a command it issues goes on the wire.       *)
Resume(c, next) ==
    /\ calls' = [calls EXCEPT ![c] = next]
    /\ wire' = IF Len(next.issued) > Len(calls[c].issued)
               THEN Append(wire, [call |-> c,
                                  cmd |-> next.issued[Len(next.issued)]])
               ELSE wire
    /\ UNCHANGED <<adapterVars, opVars, playlist>>

Awaited(c, kind) ==
    /\ calls[c].kind = kind
    /\ calls[c].pc # "done"
    /\ Len(calls[c].resps) = Len(calls[c].issued)

getPlayingInfo(c) == Begin(c, "getPlayingInfo", <<>>, __getStatus)

getPlayingInfoContinue(c) ==
    /\ Awaited(c, "getPlayingInfo")
    /\ Resume(c, getPlayingInfoThen(calls[c]))

createPlayListIfPossible(c) ==
    \E a \in CreateArguments :
        Begin(c, "createPlayListIfPossible", a,
              __checkExistance(a[1], a[2], a[3]))

createPlayListIfPossibleContinue(c) ==
    /\ Awaited(c, "createPlayListIfPossible")
    /\ Resume(c, createPlayListIfPossibleThen(calls[c]))

loadPlaylistIfPossible(c) ==
    \E name \in PlaylistNames :
        Begin(c, "loadPlaylistIfPossible", <<name>>,
              __checkExistancePlaylist(name))

loadPlaylistIfPossibleContinue(c) ==
    /\ Awaited(c, "loadPlaylistIfPossible")
    /\ Resume(c, loadPlaylistIfPossibleThen(calls[c]))

(* The server executes the oldest command on the wire and the client       *)
(* receives its result.                                                    *)
MpdExecute ==
    /\ Len(wire) > 0
    /\ LET c == Head(wire).call IN
       \E out \in MpdResults(Head(wire).cmd) :
          /\ playlist' = out.playlist
          /\ calls' = [calls EXCEPT ![c].resps = Append(@, out.resp)]
    /\ wire' = Tail(wire)
    /\ UNCHANGED <<adapterVars, opVars>>

---------------------------------------------------------------------------
(* Field values before the constructor body runs.                          *)
FieldInit ==
    /\ host = DefaultHost
    /\ port = DefaultPort
    /\ volume = DefaultVolume
    /\ volumeSilence = DefaultVolumeSilence
    /\ enableRandom = DefaultEnableRandom
    /\ isReady = FALSE

NoCalls ==
    /\ calls = <<>>
    /\ wire = <<>>
    /\ playlist = <<>>

Init ==
    /\ options \in OptionObjects
    /\ constructed = FALSE
    /\ FieldInit
    /\ lastOp = "none"
    /\ lastArg = <<>>
    /\ lastIssued = <<>>
    /\ thrown = NoError
    /\ NoCalls

Next ==
    \/ constructor
    \/ __init
    \/ OnSocketError
    \/ OnSocketEnd
    \/ Playback
    \/ saveVolume
    \/ setVolumeToSilence
    \/ setVolumeToNormal

Spec == Init /\ [][Next]_vars

(* The adapter constructed with no overrides and connected, no chain yet,  *)
(* and a playlist left over from earlier use.                              *)
InitialPlaylist == << Track("Y", "A", "R") >>

InitCalls ==
    /\ options = [host |-> None, port |-> None, defaultVolume |-> None,
                  enableRandom |-> None]
    /\ constructed = TRUE
    /\ host = DefaultHost
    /\ port = DefaultPort
    /\ volume = DefaultVolume
    /\ volumeSilence = DefaultVolumeSilence
    /\ enableRandom = DefaultEnableRandom
    /\ isReady = TRUE
    /\ lastOp = "ready"
    /\ lastArg = <<>>
    /\ lastIssued = <<__setVolume(DefaultVolume), stop>>
    /\ thrown = NoError
    /\ calls = [c \in CallIds |-> Idle]
    /\ wire = <<>>
    /\ playlist = InitialPlaylist

NextCalls ==
    \/ \E c \in CallIds : getPlayingInfo(c)
    \/ \E c \in CallIds : getPlayingInfoContinue(c)
    \/ \E c \in CallIds : createPlayListIfPossible(c)
    \/ \E c \in CallIds : createPlayListIfPossibleContinue(c)
    \/ \E c \in CallIds : loadPlaylistIfPossible(c)
    \/ \E c \in CallIds : loadPlaylistIfPossibleContinue(c)
    \/ MpdExecute

SpecCalls == InitCalls /\ [][NextCalls]_vars

---------------------------------------------------------------------------
(* Properties of the object (checked under Spec).                          *)

(* The override when the field is present, the default when it is absent.  *)
Effective(o, default) == IF Present(o) THEN o[1] ELSE default

(* C1: after construction each of host, port, normal volume and random     *)
(* flag equals the override when the options object holds that field       *)
(* (false, 0 and the like included) and the default otherwise.             *)
C1_OverridesWhenPresent ==
    lastOp = "constructor" =>
        /\ host = Effective(options.host, DefaultHost)
        /\ port = Effective(options.port, DefaultPort)
        /\ volume = Effective(options.defaultVolume, DefaultVolume)
        /\ enableRandom = Effective(options.enableRandom, DefaultEnableRandom)

(* C4: a socket-error or socket-end event, whatever came before, leaves    *)
(* the player not ready and throws out of the listener; readiness turns    *)
(* true again only in a ready event.                                       *)
C4_DisconnectClearsReadiness ==
    [][ /\ lastOp' \in {"socket-error", "socket-end"}
            => ~isReady' /\ thrown' # NoError
        /\ (~isReady /\ isReady') => lastOp' = "ready" ]_vars

C4_Witness ==
    /\ lastOp = "socket-end"
    /\ ~isReady
    /\ thrown = "mpdConnectionEnd"
    /\ volume = 100

(* C5: every error the adapter raises carries one of the four documented   *)
(* names; socket-error raises mpdConnectionFailed and socket-end raises    *)
(* mpdConnectionEnd.                                                       *)
C5_DocumentedErrorNames ==
    /\ thrown \in {NoError, "nothingPlaying", "notFound",
                   "mpdConnectionFailed", "mpdConnectionEnd"}
    /\ lastOp = "socket-error" => thrown = "mpdConnectionFailed"
    /\ lastOp = "socket-end" => thrown = "mpdConnectionEnd"

(* C6: a ready event leaves the player ready and issues exactly two        *)
(* commands: set-volume with the normal volume stored when the event       *)
(* arrives, then stop; the stored volume is left as it was.                *)
C6_ReadyRestoresBaseline ==
    [][ lastOp' = "ready" =>
          /\ isReady'
          /\ Len(lastIssued') = 2
          /\ lastIssued'[1].op = "setVolume"
          /\ lastIssued'[1].arg = <<volume>>
          /\ lastIssued'[2].op = "stop"
          /\ volume' = volume ]_vars

C6_Witness ==
    /\ lastOp = "ready"
    /\ isReady
    /\ volume = 100
    /\ Len(lastIssued) = 2
    /\ lastIssued[1] = [op |-> "setVolume", arg |-> <<100>>]
    /\ lastIssued[2].op = "stop"

(* C9: saveVolume(level) stores level as the normal volume and issues      *)
(* set-volume(level); setVolumeToSilence and setVolumeToNormal issue       *)
(* set-volume with the stored silence and normal level and change neither  *)
(* stored level nor readiness; the stored normal volume changes only in    *)
(* the constructor and in saveVolume.                                      *)
C9_VolumeMethods ==
    [][ /\ lastOp' = "saveVolume" =>
              /\ volume' = lastArg'[1]
              /\ lastIssued' = << [op |-> "setVolume", arg |-> lastArg'] >>
        /\ lastOp' = "setVolumeToSilence" =>
              /\ lastIssued' =
                    << [op |-> "setVolume", arg |-> <<volumeSilence>>] >>
              /\ UNCHANGED <<volume, volumeSilence, isReady>>
        /\ lastOp' = "setVolumeToNormal" =>
              /\ lastIssued' = << [op |-> "setVolume", arg |-> <<volume>>] >>
              /\ UNCHANGED <<volume, volumeSilence, isReady>>
        /\ volume' # volume => lastOp' \in {"constructor", "saveVolume"}
        /\ volumeSilence' = volumeSilence ]_vars

C9_Witness ==
    /\ lastOp = "setVolumeToNormal"
    /\ options.defaultVolume = None
    /\ volume = 55
    /\ lastIssued = << [op |-> "setVolume", arg |-> <<55>>] >>

---------------------------------------------------------------------------
(* Properties of the promise chains (checked under SpecCalls).             *)

(* An argument as a filter value: itself when given, blank when absent.    *)
Blank(o) == IF Present(o) THEN o[1] ELSE ""

ExpectedCriteria(args) ==
    << <<"Title", Blank(args[1])>>, <<"Album", Blank(args[2])>>,
       <<"Artist", Blank(args[3])>> >>

ExpectedFile(args) == toLowerCase(args[1]) \o M3uSuffix

RejectedWith(r, name) ==
    /\ r.pc = "done"
    /\ r.outcome.state = "rejected"
    /\ r.outcome.val = name

ResolvedCall(r) == r.pc = "done" /\ r.outcome.state = "resolved"

(* The first result is in and is a list; it is empty, or not.              *)
Listed(r) == Len(r.resps) >= 1 /\ r.resps[1].ok
ListedEmpty(r) == Listed(r) /\ Len(r.resps[1].val) = 0
ListedSome(r) == Listed(r) /\ Len(r.resps[1].val) > 0
ClearResolved(r) == Len(r.resps) >= 2 /\ r.resps[2].ok

(* C2: createPlayListIfPossible first searches with [Title, Album, Artist] *)
(* (absent values blank); on an empty result it fails with notFound and    *)
(* issues nothing more; on a non-empty result it issues clear once and,    *)
(* only after clear has resolved, search-add once with the same criteria.  *)
C2_CreatePlayListSequence ==
    \A c \in CallIds :
        calls[c].kind = "createPlayListIfPossible" =>
            LET r == calls[c]
                n == Len(r.issued)
            IN  /\ n \in 1..3
                /\ r.issued[1] = Cmd("search", ExpectedCriteria(r.args))
                /\ n >= 2 => r.issued[2].op = "clear" /\ ListedSome(r)
                /\ n >= 3 => /\ r.issued[3].op = "searchAdd"
                             /\ r.issued[3].arg = ExpectedCriteria(r.args)
                             /\ ClearResolved(r)
                /\ ListedEmpty(r) =>
                      n = 1 /\ (r.pc # "search" => RejectedWith(r, "notFound"))
                /\ ListedSome(r) /\ r.pc # "search" => n >= 2
                /\ ClearResolved(r) /\ r.pc \notin {"search", "clear"} => n = 3

C2_Witness ==
    \E c, d \in CallIds :
        /\ calls[c].kind = "createPlayListIfPossible"
        /\ calls[c].args = <<Some("X"), Some(""), Some("")>>
        /\ ResolvedCall(calls[c])
        /\ Len(calls[c].issued) = 3
        /\ calls[c].issued[3].arg =
              << <<"Title", "X">>, <<"Album", "">>, <<"Artist", "">> >>
        /\ calls[d].kind = "createPlayListIfPossible"
        /\ calls[d].args = <<Some("X"), Some("B"), None>>
        /\ ListedEmpty(calls[d])
        /\ RejectedWith(calls[d], "notFound")

(* C3: loadPlaylistIfPossible lists the lowercased name with the .m3u      *)
(* suffix; on an empty listing it fails with notFound and issues nothing   *)
(* more; on a non-empty listing it issues clear once and, only after clear *)
(* has resolved, load once for the same file name.                         *)
C3_LoadPlaylistSequence ==
    \A c \in CallIds :
        calls[c].kind = "loadPlaylistIfPossible" =>
            LET r == calls[c]
                n == Len(r.issued)
            IN  /\ n \in 1..3
                /\ r.issued[1] = Cmd("listPlaylist", ExpectedFile(r.args))
                /\ n >= 2 => r.issued[2].op = "clear" /\ ListedSome(r)
                /\ n >= 3 => /\ r.issued[3] = Cmd("load", ExpectedFile(r.args))
                             /\ ClearResolved(r)
                /\ ListedEmpty(r) =>
                      n = 1 /\ (r.pc # "listPlaylist"
                                  => RejectedWith(r, "notFound"))
                /\ ListedSome(r) /\ r.pc # "listPlaylist" => n >= 2
                /\ ClearResolved(r) /\ r.pc \notin {"listPlaylist", "clear"}
                      => n = 3

C3_Witness ==
    \E c, d \in CallIds :
        /\ calls[c].kind = "loadPlaylistIfPossible"
        /\ calls[c].args = << <<"M", "x">> >>
        /\ ResolvedCall(calls[c])
        /\ calls[c].issued[1].arg = <<"m", "x", ".", "m", "3", "u">>
        /\ Len(calls[c].issued) = 3
        /\ calls[c].issued[3] =
              [op |-> "load", arg |-> <<"m", "x", ".", "m", "3", "u">>]
        /\ calls[d].kind = "loadPlaylistIfPossible"
        /\ ListedEmpty(calls[d])
        /\ RejectedWith(calls[d], "notFound")

(* C7: getPlayingInfo issues one status query; on state stop or pause it   *)
(* fails with nothingPlaying and never queries the current song; on any    *)
(* other state it queries the current song once and resolves with that     *)
(* result as received.                                                     *)
C7_GetPlayingInfo ==
    \A c \in CallIds :
        calls[c].kind = "getPlayingInfo" =>
            LET r == calls[c]
                n == Len(r.issued)
                quiet == Listed(r) /\ r.resps[1].val.state \in {"stop", "pause"}
                playing == Listed(r) /\ ~quiet
            IN  /\ n \in 1..2
                /\ r.issued[1].op = "status"
                /\ n = 2 => r.issued[2].op = "currentSong" /\ playing
                /\ quiet =>
                      n = 1 /\ (r.pc # "status"
                                  => RejectedWith(r, "nothingPlaying"))
                /\ playing /\ r.pc # "status" => n = 2
                /\ r.pc = "done" /\ Len(r.resps) = 2 /\ r.resps[2].ok =>
                      /\ r.outcome.state = "resolved"
                      /\ r.outcome.val = r.resps[2].val

C7_Witness ==
    \E c, d \in CallIds :
        /\ calls[c].kind = "getPlayingInfo"
        /\ Listed(calls[c])
        /\ calls[c].resps[1].val.state = "play"
        /\ ResolvedCall(calls[c])
        /\ calls[c].outcome.val = Track("Z", "B", "S")
        /\ calls[d].kind = "getPlayingInfo"
        /\ Listed(calls[d])
        /\ calls[d].resps[1].val.state = "pause"
        /\ Len(calls[d].issued) = 1
        /\ RejectedWith(calls[d], "nothingPlaying")

(* C8: in loadPlaylistIfPossible a rejected listing, an empty listing and  *)
(* a rejected clear each make the call fail with notFound, whatever the    *)
(* error was, and load is never issued.                                    *)
FailedBeforeLoad(r) ==
    \/ Len(r.resps) >= 1 /\ ~r.resps[1].ok
    \/ ListedEmpty(r)
    \/ Len(r.resps) >= 2 /\ ~r.resps[2].ok

C8_LoadFailuresAreNotFound ==
    \A c \in CallIds :
        LET r == calls[c] IN
        (r.kind = "loadPlaylistIfPossible" /\ FailedBeforeLoad(r)) =>
            /\ \A i \in 1..Len(r.issued) : r.issued[i].op # "load"
            /\ Len(r.resps) = Len(r.issued)
            /\ r.pc = "done" => RejectedWith(r, "notFound")
            /\ r.pc # "done" => r.outcome = Pending

C8_Witness ==
    \E c, d \in CallIds :
        /\ calls[c].kind = "loadPlaylistIfPossible"
        /\ Len(calls[c].resps) = 2
        /\ calls[c].resps[2] = Rejected("ETIMEDOUT")
        /\ RejectedWith(calls[c], "notFound")
        /\ calls[d].kind = "loadPlaylistIfPossible"
        /\ Len(calls[d].resps) = 1
        /\ calls[d].resps[1] = Rejected("ACK")
        /\ RejectedWith(calls[d], "notFound")

(* The tracks a playlist-replacing call puts on the playlist.              *)
ReplacingKinds == {"createPlayListIfPossible", "loadPlaylistIfPossible"}

TracksOf(r) ==
    IF r.kind = "createPlayListIfPossible"
    THEN SearchResult(ExpectedCriteria(r.args))
    ELSE StoredPlaylist(ExpectedFile(r.args))

Replacers == {c \in CallIds : calls[c].kind \in ReplacingKinds}

(* Every playlist-replacing call made has resolved, and there are several. *)
ReplacersResolved ==
    /\ Cardinality(Replacers) >= 2
    /\ \A c \in Replacers : ResolvedCall(calls[c])

RECURSIVE Joined(_)
Joined(order) ==
    IF Len(order) = 0 THEN <<>>
    ELSE TracksOf(calls[Head(order)]) \o Joined(Tail(order))

(* The non-empty sequences of distinct playlist-replacing calls.           *)
Orders ==
    {o \in UNION {[1..k -> Replacers] : k \in 1..Cardinality(Replacers)} :
        \A i, j \in 1..Len(o) : i # j => o[i] # o[j]}

(* C10 as claimed: once two concurrent playlist-replacing calls have both  *)
(* resolved, the playlist holds the tracks of exactly one of them.         *)
C10_ExactlyOneCall ==
    ReplacersResolved => \E c \in Replacers : playlist = TracksOf(calls[c])

(* C10 as amended: once they have resolved, the playlist holds the tracks  *)
(* of one of the calls or of several of them one after the other, each     *)
(* call's at most once, and nothing of the earlier playlist.               *)
C10_OneOrSeveralCalls ==
    ReplacersResolved => \E o \in Orders : playlist = Joined(o)

C10_Witness ==
    /\ ReplacersResolved
    /\ calls[1].kind = "createPlayListIfPossible"
    /\ calls[2].kind = "loadPlaylistIfPossible"
    /\ Len(TracksOf(calls[1])) > 0
    /\ playlist = TracksOf(calls[1]) \o TracksOf(calls[2])

===========================================================================
